---- MODULE Spec2Model ----
(***************************************************************************)
(* Model of GameSimulator.run_simulation (src/GameSimulator.py): the tick  *)
(* loop of one fight, the Monte-Carlo loop over num_matches fights and the *)
(* win-rate computation; and of the balancing loop of src/run.py with its  *)
(* call of run_optimization_agent (src/OptimizationAgent.py).              *)
(*                                                                         *)
(* Representation choices                                                  *)
(*  - Cooldowns are given in tenths of a second (the integer k stands for  *)
(*    the decimal literal k/10, e.g. 8 for 0.8).                           *)
(*  - A timer (time_until_attack, time_until_heal) is an IEEE-754 double   *)
(*    in the code and is only ever compared with 0, reset to a cooldown or *)
(*    decreased by TICK_LENGTH = 0.1.  It is represented by the number of  *)
(*    further subtractions of 0.1 after which the double is <= 0 (a value  *)
(*    <= 0 means "expired").  FloatTicks gives that number for a cooldown, *)
(*    computed with double arithmetic.                                     *)
(*  - random.random() < 0.05 is a boolean draw; random.gauss(mu, sigma) is *)
(*    mu plus a noise drawn in halves, so that int() truncation is real.   *)
(*  - A win rate, and an average of plot_average_health, is the exact      *)
(*    rational num/den.                                                    *)
(*  - The random module is the variable rng: unseeded, a draw is any       *)
(*    value; seeded twice with the same value, the second run reads the    *)
(*    stream of draws of the first.                                        *)
(*  - last, ties, ticks_run and since record what the run did; the code    *)
(*    holds no such values and they influence no other variable.           *)
(*  - main is run.py at its balancing loop.  There a call of               *)
(*    run_simulation is the draw of a win rate, and an answer of the       *)
(*    language-model service is a failure or a JSON object; an exception   *)
(*    that nothing catches is the position "raised".                       *)
(***************************************************************************)
EXTENDS Integers, Sequences, FiniteSets, TLC

\* ---------------------------------------------------------------- bounds
MaxHealth == 3       \* largest health parameter explored
MaxAttack == 2       \* largest attack_power parameter explored
MaxHealing == 2      \* largest healing parameter explored
MaxTrials == 2       \* largest num_matches explored
MaxTracked == 1      \* largest num_matches explored while health is tracked
MaxTicks == 2        \* ticks of one fight explored while health is tracked
max_rounds == 3      \* rounds of the balancing loop explored (run.py: 50)

\* ---------------------------------------------------------------- helpers
Max(x, y) == IF x >= y THEN x ELSE y

Min(x, y) == IF x <= y THEN x ELSE y

Last(s) == s[Len(s)]

\* Python int() of the rational n/d (d > 0): truncation toward zero.
int(n, d) == IF n >= 0 THEN n \div d ELSE -((-n) \div d)

\* Number of subtractions of TICK_LENGTH (0.1) after which the double that
\* started at the literal k/10 is <= 0.  The repeated subtraction is not
\* exact: 0.4 .. 1.3 need one subtraction more than k.
FloatTicks(k) ==
    IF k <= 0 THEN 0
    ELSE IF k >= 4 /\ k <= 13 THEN k + 1
    ELSE k

\* timer -= TICK_LENGTH.  A timer that expired MaxTicks ticks ago is held:
\* it stays <= 0 until it is reset, which is all the code looks at.
Dec(t) == IF t > -MaxTicks THEN t - 1 ELSE t

\* defaultdict(list): a missing key reads as the empty list.
Get(h, t) == IF t \in DOMAIN h THEN h[t] ELSE <<>>

\* An assignment health_history[tick] = [x] in place of the append.
AppendAt_overwrite(h, t, x) ==
    [k \in (DOMAIN h) \cup {t} |-> IF k = t THEN <<x>> ELSE h[k]]

\* health_history[tick].append(x)
AppendAt(h, t, x) ==
    [k \in (DOMAIN h) \cup {t} |-> IF k = t THEN Append(Get(h, t), x) ELSE h[k]]

\* ---------------------------------------------------------------- inputs
Params(ap, h, hl, acd, hcd) ==
    [attack_power |-> ap, health |-> h, healing |-> hl,
     attack_cooldown |-> acd, healing_cooldown |-> hcd]

\* Parameter sets a caller can pass.  run_simulation takes plain dicts and
\* checks nothing, so out-of-range values are inputs too.
AttackerParams == Params(MaxAttack, MaxHealth, 0, 1, 1)

HealerParams == Params(1, MaxHealth - 1, MaxHealing, 2, 3)

\* A fighter of health 2 that strikes every tick for about 1.
DuellistParams == Params(1, 2, 0, 1, 1)

ParamSets ==
    { AttackerParams,
      HealerParams,
      Params(-1, MaxHealth - 1, 1, 0, 0),                 \* bad power, cooldowns
      Params(0, 0, -1, 1, 2) }                            \* bad health, healing

NumMatches == -1 .. MaxTrials

\* random.gauss(attack_power, 8) - attack_power, in halves: a far negative
\* draw, two draws around the mean, and a draw large enough for a single
\* blow to take any health explored.
NoiseHalves == {-(2 * MaxHealth + 2), -1, 0, 2 * MaxHealth + 2}

\* random.gauss(1.0, 0.2), in halves: -0.5, 0.5, 1.0, 1.5
VarianceHalves == {-1, 1, 2, 3}

\* ---------------------------------------------------------------- state
VARIABLES
    pc,                 \* position in run_simulation
    char_a_params,      \* argument
    char_b_params,      \* argument
    num_matches,        \* argument
    track_health,       \* argument
    trial,              \* number of iterations of the for loop started
    a,                  \* Character A of the current fight
    b,                  \* Character B of the current fight
    tick_count,
    wins_a,
    wins_b,
    ties,               \* fights that awarded no win (GameSimulator.py:98)
    health_history_a,   \* tick -> list of samples
    health_history_b,
    win_rate_a,         \* returned value, [num, den]
    last,               \* the action resolved by the last step, if any
    ticks_run,          \* with tracking: per fight, the ticks it has entered
    since,              \* per action: ticks since it was last done in the fight
    rng,                \* the state of the random module
    plot,               \* what plot_average_health computed from the histories
    main                \* run.py's balancing loop and its call of the agent

vars == <<pc, char_a_params, char_b_params, num_matches, track_health, trial,
          a, b, tick_count, wins_a, wins_b, ties, health_history_a,
          health_history_b, win_rate_a, last, ticks_run, since, rng, plot,
          main>>

\* No Character has been constructed yet.
NoCharacter ==
    [name |-> "none", attack_power |-> 0, healing |-> 0, max_health |-> 0,
     health |-> 0, attack_cooldown |-> 0, healing_cooldown |-> 0,
     time_until_attack |-> 0, time_until_heal |-> 0]

\* gap: the ticks since the actor last did the same action, -1 for its first.
NoAction == [op |-> "none", who |-> "none", actor_health |-> 0,
             hit |-> FALSE, amount |-> 0, gap |-> -1]

\* No win rate has been computed yet.
NoRate == [num |-> -1, den |-> 1]

\* The random module.  Unseeded ("free"), every draw is arbitrary.  A caller
\* that seeds it fixes the stream of draws: the first run after
\* random.seed(x) makes the stream ("record"), a run after seeding with the
\* same x again reads the same stream from its start ("replay").  first is
\* what the recorded run returned, with its counters and the healths its
\* last fight ended with.
\* To compare a run with the run in which the sides have changed places,
\* the stream keeps with each draw the action that made it ("record_sides"),
\* and the second run gives each action the draws that the same action of the
\* other side made in the first, in their order ("swap"; pos then counts
\* the draws handed to each action).
NoResult == [win_rate_a |-> NoRate, health_history_a |-> <<>>,
             health_history_b |-> <<>>, wins_a |-> 0, wins_b |-> 0,
             health_a |-> 0, health_b |-> 0]

FreeRng == [mode |-> "free", stream |-> <<>>, pos |-> 1, first |-> NoResult]

SeededRng == [mode |-> "record", stream |-> <<>>, pos |-> 1, first |-> NoResult]

SidesRng ==
    [mode |-> "record_sides", stream |-> <<>>, pos |-> 1, first |-> NoResult]

\* No draw has been handed to any action.
NoDraws == [x \in {"a_attack", "a_heal", "b_attack", "b_heal"} |-> 0]

\* The same action of the other side.
Mirror(p) ==
    CASE p = "a_attack" -> "b_attack"
      [] p = "b_attack" -> "a_attack"
      [] p = "a_heal" -> "b_heal"
      [] p = "b_heal" -> "a_heal"

\* The draws that the action p made, in their order.
DrawsOf(p) == SelectSeq(rng.stream, LAMBDA e : e[1] = p)

\* A random module whose second seeding has no effect: the replayed run
\* draws afresh.
Drawn_reseed_ignored(d) ==
    CASE rng.mode = "free" -> rng' = rng
      [] rng.mode = "record" -> rng' = [rng EXCEPT !.stream = Append(@, d)]
      [] rng.mode = "replay" ->
            /\ rng.pos <= Len(rng.stream)
            /\ rng' = [rng EXCEPT !.pos = @ + 1]

\* The random module hands out the draw d.
Drawn(d) ==
    CASE rng.mode = "free" -> rng' = rng
      [] rng.mode = "record" -> rng' = [rng EXCEPT !.stream = Append(@, d)]
      [] rng.mode = "replay" ->
            /\ rng.pos <= Len(rng.stream)
            /\ d = rng.stream[rng.pos]
            /\ rng' = [rng EXCEPT !.pos = @ + 1]
      [] rng.mode = "record_sides" ->
            rng' = [rng EXCEPT !.stream = Append(@, <<pc, d>>)]
      [] rng.mode = "swap" ->
            /\ rng.pos[pc] < Len(DrawsOf(Mirror(pc)))
            /\ d = DrawsOf(Mirror(pc))[rng.pos[pc] + 1][2]
            /\ rng' = [rng EXCEPT !.pos[pc] = @ + 1]

\* The draws of one attack or heal: random.random() < 0.05, and the gauss
\* draw, which a miss does not make.
Draws(miss, x) == <<miss, IF miss THEN 0 ELSE x>>

\* Nothing has been plotted.
NoPlot == [ticks |-> <<>>, avg_health_a |-> <<>>, avg_health_b |-> <<>>]

\* ---------------------------------------------------------------- agent
\* What the language-model service can answer to one request: the call
\* raises, the content is no JSON, the JSON does not fit the schema (or
\* lacks a key the code reads), or the JSON fits.
ResponseKinds == {"error", "unparsable", "invalid", "json"}

\* The names a decision can carry: ParameterChangeDecision declares character
\* and parameter as str, so any string passes validation.
Characters == {"Healer", "Attacker", "Tank"}
Parameters == {"attack_power", "speed"}

None == [kind |-> "None", character |-> "", parameter |-> "", direction |-> ""]

\* The answers to the request of decide_parameter_change.
DecideResponses ==
    {[kind |-> k, character |-> "", parameter |-> "", direction |-> ""] :
        k \in ResponseKinds \ {"json"}}
    \cup {[kind |-> "json", character |-> c, parameter |-> p,
           direction |-> "increase"] : c \in Characters, p \in Parameters}

\* The answers to the request of apply_parameter_change: a failure, or the
\* complete parameter sets with the requested parameter one step higher.
ApplyResponses(decision, current_healer_params, current_attacker_params) ==
    {[kind |-> k, healer |-> current_healer_params,
      attacker |-> current_attacker_params] : k \in ResponseKinds \ {"json"}}
    \cup {[kind |-> "json",
           healer |-> IF decision.character = "Healer"
                          /\ decision.parameter \in DOMAIN current_healer_params
                      THEN [current_healer_params EXCEPT
                                ![decision.parameter] = @ + 1]
                      ELSE current_healer_params,
           attacker |-> IF decision.character = "Attacker"
                          /\ decision.parameter \in DOMAIN current_attacker_params
                        THEN [current_attacker_params EXCEPT
                                  ![decision.parameter] = @ + 1]
                        ELSE current_attacker_params]}

\* No fix, and the KeyError of a failed dictionary lookup.
NoFix(kind) ==
    [kind |-> kind, healer |-> Params(0, 0, 0, 0, 0),
     attacker |-> Params(0, 0, 0, 0, 0), amount |-> 0]

\* decide_parameter_change: everything after the prompt runs inside try, and
\* except Exception returns None.
decide_parameter_change(response) ==
    IF response.kind = "json"
    THEN [response EXCEPT !.kind = "ParameterChangeDecision"]
    ELSE None

\* apply_parameter_change: the two dictionary lookups come before try, so a
\* KeyError of theirs leaves the function; everything after them runs inside
\* try, and except Exception returns None.
apply_parameter_change(decision, response, current_healer_params, current_attacker_params) ==
    LET character_params == [Healer |-> current_healer_params,
                             Attacker |-> current_attacker_params]
    IN  IF decision.character \notin DOMAIN character_params
        THEN NoFix("KeyError")
        ELSE IF decision.parameter
                    \notin DOMAIN character_params[decision.character]
        THEN NoFix("KeyError")
        ELSE IF response.kind # "json"
        THEN NoFix("None")
        ELSE LET current_value ==
                     character_params[decision.character][decision.parameter]
                 new_value == IF decision.character = "Healer"
                              THEN response.healer[decision.parameter]
                              ELSE response.attacker[decision.parameter]
                 d == new_value - current_value
             IN  [kind |-> "ProposedFix", healer |-> response.healer,
                  attacker |-> response.attacker,
                  amount |-> IF d < 0 THEN -d ELSE d]

\* run_optimization_agent: None when a step returned None, the pair of
\* decision and fix otherwise; an exception of a step is not caught here.
run_optimization_agent(decision, proposed_fix) ==
    IF decision.kind = "None"
    THEN [kind |-> "None", decision |-> None, fixes |-> NoFix("None")]
    ELSE IF proposed_fix.kind = "KeyError"
    THEN [kind |-> "KeyError", decision |-> decision,
          fixes |-> NoFix("KeyError")]
    ELSE IF proposed_fix.kind = "None"
    THEN [kind |-> "None", decision |-> None, fixes |-> NoFix("None")]
    ELSE [kind |-> "tuple", decision |-> decision, fixes |-> proposed_fix]

\* The simulated win rates of a round, in percent: the two ends of the
\* balanced range and their neighbours outside it.
WinRates == {39, 40, 60, 61}

\* run.py is not at its balancing loop.
NoMain ==
    [pc |-> "idle", round_number |-> 0,
     current_healer_params |-> Params(0, 0, 0, 0, 0),
     current_attacker_params |-> Params(0, 0, 0, 0, 0),
     history_buffer |-> <<>>, win_rate |-> -1,
     result |-> [kind |-> "None", decision |-> None, fixes |-> NoFix("None")]]

\* sorted(S) for a set of integers.
RECURSIVE sorted(_)
sorted(S) ==
    IF S = {} THEN <<>>
    ELSE LET m == CHOOSE x \in S : \A y \in S : x <= y
         IN  <<m>> \o sorted(S \ {m})

\* sum(l) for a list of integers.
RECURSIVE sum(_)
sum(l) == IF l = <<>> THEN 0 ELSE l[1] + sum(Tail(l))

\* The result of a division by 0 (the exception, in place of a rational).
ZeroDivisionError == [num |-> 0, den |-> 0]

\* The average with the number of fights as divisor.
Average_by_trials(l) ==
    IF num_matches = 0 THEN ZeroDivisionError
    ELSE [num |-> sum(l), den |-> num_matches]

\* sum(l) / len(l), as an exact rational; a division by 0 raises.
Average(l) ==
    IF Len(l) = 0 THEN ZeroDivisionError
    ELSE [num |-> sum(l), den |-> Len(l)]

\* No action has been done yet in the fight.
NoneSince == [a_attack |-> -1, a_heal |-> -1, b_attack |-> -1, b_heal |-> -1]

\* One more tick has passed since each action already done.
Tick(s) == [x \in DOMAIN s |-> IF s[x] >= 0 THEN s[x] + 1 ELSE s[x]]

\* Character.__init__
Character(nm, p) ==
    [name |-> nm, attack_power |-> p.attack_power, healing |-> p.healing,
     max_health |-> p.health, health |-> p.health,
     attack_cooldown |-> p.attack_cooldown,
     healing_cooldown |-> p.healing_cooldown,
     time_until_attack |-> 0, time_until_heal |-> 0]

\* attack with a miss test that always succeeds.
attack_all_miss(self, miss, g) == 0

\* attack without the max(0, ...) floor: a negative draw is applied as is.
attack_unfloored(self, miss, g) ==
    IF miss THEN 0 ELSE int(2 * self.attack_power + g, 2)

\* Character.attack: the damage, given the miss draw and the gauss noise.
attack(self, miss, g) ==
    IF miss THEN 0
    ELSE LET base_damage == int(2 * self.attack_power + g, 2)
         IN  Max(0, base_damage)

\* healing_amount = int(self.healing * heal_variance)
healing_amount(self, v) == int(self.healing * v, 2)

\* heal without the miss test.
heal_miss_ignored(self, miss, v) ==
    [self EXCEPT !.health = Min(self.health + healing_amount(self, v),
                                self.max_health)]

\* heal with the sign of the amount reversed.
heal_negated(self, miss, v) ==
    IF miss THEN self
    ELSE [self EXCEPT !.health = Min(self.health - healing_amount(self, v),
                                     self.max_health)]

\* heal without the min(..., max_health) cap.
heal_uncapped(self, miss, v) ==
    IF miss THEN self
    ELSE [self EXCEPT !.health = self.health + healing_amount(self, v)]

\* Character.heal: the character after the call, given the miss draw and the
\* variance draw.
heal(self, miss, v) ==
    IF miss THEN self
    ELSE [self EXCEPT !.health = Min(self.health + healing_amount(self, v),
                                     self.max_health)]

\* The win rate taken over the wrong counter.
WinRate_of_b(wa, wb) ==
    IF wa + wb > 0 THEN [num |-> wb * 100, den |-> wa + wb]
    ELSE [num |-> 50, den |-> 1]

\* The win rate with 0 returned when no fight was decisive.
WinRate_zero_default(wa, wb) ==
    IF wa + wb > 0 THEN [num |-> wa * 100, den |-> wa + wb]
    ELSE [num |-> 0, den |-> 1]

\* win_rate_a computed from the two counters.
WinRate(wa, wb) ==
    LET total_decisive_matches == wa + wb
    IN  IF total_decisive_matches > 0
        THEN [num |-> wa * 100, den |-> total_decisive_matches]
        ELSE [num |-> 50, den |-> 1]

Init ==
    /\ pc = "for"
    /\ char_a_params \in ParamSets
    /\ char_b_params \in ParamSets
    /\ num_matches \in NumMatches
    /\ track_health \in BOOLEAN
    /\ track_health => num_matches <= MaxTracked
    /\ trial = 0
    /\ a = NoCharacter
    /\ b = NoCharacter
    /\ tick_count = 0
    /\ wins_a = 0
    /\ wins_b = 0
    /\ ties = 0
    /\ health_history_a = <<>>
    /\ health_history_b = <<>>
    /\ win_rate_a = NoRate
    /\ last = NoAction
    /\ ticks_run = <<>>
    /\ since = NoneSince
    /\ rng = FreeRng
    /\ plot = NoPlot
    /\ main = NoMain

\* The characters constructed once, before the loop, and used by every fight.
ForNext_reuse ==
    /\ pc = "for"
    /\ trial < num_matches
    /\ trial' = trial + 1
    /\ a' = IF trial = 0 THEN Character("A", char_a_params) ELSE a
    /\ b' = IF trial = 0 THEN Character("B", char_b_params) ELSE b
    /\ tick_count' = 0
    /\ last' = NoAction
    /\ ticks_run' = IF track_health THEN Append(ticks_run, 0) ELSE ticks_run
    /\ since' = NoneSince
    /\ pc' = "while"
    /\ UNCHANGED <<char_a_params, char_b_params, num_matches, track_health,
                   main, plot, rng,
                   wins_a, wins_b, ties, health_history_a, health_history_b,
                   win_rate_a>>

\* for _ in range(num_matches): construct the two characters.
ForNext ==
    /\ pc = "for"
    /\ trial < num_matches
    /\ trial' = trial + 1
    /\ a' = Character("A", char_a_params)
    /\ b' = Character("B", char_b_params)
    /\ tick_count' = 0
    /\ last' = NoAction
    /\ ticks_run' = IF track_health THEN Append(ticks_run, 0) ELSE ticks_run
    /\ since' = NoneSince
    /\ pc' = "while"
    /\ UNCHANGED <<char_a_params, char_b_params, num_matches, track_health,
                   main, plot, rng,
                   wins_a, wins_b, ties, health_history_a, health_history_b,
                   win_rate_a>>

\* range(num_matches) is exhausted.
ForDone ==
    /\ pc = "for"
    /\ trial >= num_matches
    /\ pc' = "rate"
    /\ UNCHANGED <<char_a_params, char_b_params, num_matches, track_health,
                   main, plot, rng, since, ticks_run,
                   trial, a, b, tick_count, wins_a, wins_b, ties,
                   health_history_a, health_history_b, win_rate_a, last>>

\* The loop condition written with "or": the body runs while either lives.
WhileEnter_or ==
    /\ pc = "while"
    /\ a.health > 0 \/ b.health > 0
    /\ track_health => tick_count < MaxTicks
    /\ IF track_health
       THEN /\ health_history_a' = AppendAt(health_history_a, tick_count, a.health)
            /\ health_history_b' = AppendAt(health_history_b, tick_count, b.health)
            /\ ticks_run' = [ticks_run EXCEPT ![Len(ticks_run)] = @ + 1]
       ELSE UNCHANGED <<health_history_a, health_history_b, ticks_run>>
    /\ last' = NoAction
    /\ pc' = "a_attack"
    /\ UNCHANGED <<char_a_params, char_b_params, num_matches, track_health,
                   main, plot, rng, since,
                   trial, a, b, tick_count, wins_a, wins_b, ties, win_rate_a>>

\* The samples stored one tick late (tick_count advanced before recording).
WhileEnter_late ==
    /\ pc = "while"
    /\ a.health > 0 /\ b.health > 0
    /\ track_health => tick_count < MaxTicks
    /\ IF track_health
       THEN /\ health_history_a' = AppendAt(health_history_a, tick_count + 1, a.health)
            /\ health_history_b' = AppendAt(health_history_b, tick_count + 1, b.health)
            /\ ticks_run' = [ticks_run EXCEPT ![Len(ticks_run)] = @ + 1]
       ELSE UNCHANGED <<health_history_a, health_history_b, ticks_run>>
    /\ last' = NoAction
    /\ pc' = "a_attack"
    /\ UNCHANGED <<char_a_params, char_b_params, num_matches, track_health,
                   main, plot, rng, since,
                   trial, a, b, tick_count, wins_a, wins_b, ties, win_rate_a>>

\* The samples recorded whether or not tracking was requested.
WhileEnter_always ==
    /\ pc = "while"
    /\ a.health > 0 /\ b.health > 0
    /\ track_health => tick_count < MaxTicks
    /\ health_history_a' = AppendAt(health_history_a, tick_count, a.health)
    /\ health_history_b' = AppendAt(health_history_b, tick_count, b.health)
    /\ IF track_health
       THEN ticks_run' = [ticks_run EXCEPT ![Len(ticks_run)] = @ + 1]
       ELSE UNCHANGED ticks_run
    /\ last' = NoAction
    /\ pc' = "a_attack"
    /\ UNCHANGED <<char_a_params, char_b_params, num_matches, track_health,
                   main, plot, rng, since,
                   trial, a, b, tick_count, wins_a, wins_b, ties, win_rate_a>>

\* while a.health > 0 and b.health > 0: enter the body, record the samples.
\* With tracking on, a fight is explored for MaxTicks ticks.
WhileEnter ==
    /\ pc = "while"
    /\ a.health > 0 /\ b.health > 0
    /\ track_health => tick_count < MaxTicks
    /\ IF track_health
       THEN /\ health_history_a' = AppendAt(health_history_a, tick_count, a.health)
            /\ health_history_b' = AppendAt(health_history_b, tick_count, b.health)
            /\ ticks_run' = [ticks_run EXCEPT ![Len(ticks_run)] = @ + 1]
       ELSE UNCHANGED <<health_history_a, health_history_b, ticks_run>>
    /\ last' = NoAction
    /\ pc' = "a_attack"
    /\ UNCHANGED <<char_a_params, char_b_params, num_matches, track_health,
                   main, plot, rng, since,
                   trial, a, b, tick_count, wins_a, wins_b, ties, win_rate_a>>

\* The loop also left when the two healths are equal.
WhileExit_on_equal ==
    /\ pc = "while"
    /\ ~(a.health > 0 /\ b.health > 0) \/ a.health = b.health
    /\ last' = NoAction
    /\ pc' = "award"
    /\ UNCHANGED <<char_a_params, char_b_params, num_matches, track_health,
                   main, plot, rng, since, ticks_run,
                   trial, a, b, tick_count, wins_a, wins_b, ties,
                   health_history_a, health_history_b, win_rate_a>>

\* The loop condition is false.
WhileExit ==
    /\ pc = "while"
    /\ ~(a.health > 0 /\ b.health > 0)
    /\ last' = NoAction
    /\ pc' = "award"
    /\ UNCHANGED <<char_a_params, char_b_params, num_matches, track_health,
                   main, plot, rng, since, ticks_run,
                   trial, a, b, tick_count, wins_a, wins_b, ties,
                   health_history_a, health_history_b, win_rate_a>>

\* if a.time_until_attack <= 0: damage = a.attack(); b.health -= damage
AAttack ==
    /\ pc = "a_attack"
    /\ IF a.time_until_attack <= 0
       THEN \E miss \in BOOLEAN, g \in NoiseHalves :
              LET damage == attack(a, miss, g) IN
              /\ b' = [b EXCEPT !.health = @ - damage]
              /\ a' = [a EXCEPT !.time_until_attack = FloatTicks(a.attack_cooldown)]
              /\ last' = [op |-> "attack", who |-> "A", actor_health |-> a.health,
                          hit |-> ~miss, amount |-> damage,
                          gap |-> since.a_attack]
              /\ since' = [since EXCEPT !.a_attack = 0]
              /\ Drawn(Draws(miss, g))
       ELSE /\ UNCHANGED <<a, b>>
            /\ last' = NoAction
            /\ UNCHANGED <<since, rng>>
    /\ pc' = "a_heal"
    /\ UNCHANGED <<char_a_params, char_b_params, num_matches, track_health,
                   main, plot, ticks_run,
                   trial, tick_count, wins_a, wins_b, ties, health_history_a,
                   health_history_b, win_rate_a>>

\* if a.time_until_heal <= 0 and a.healing > 0: a.heal()
AHeal ==
    /\ pc = "a_heal"
    /\ IF a.time_until_heal <= 0 /\ a.healing > 0
       THEN \E miss \in BOOLEAN, v \in VarianceHalves :
              LET healed == heal(a, miss, v) IN
              /\ a' = [healed EXCEPT !.time_until_heal = FloatTicks(a.healing_cooldown)]
              /\ last' = [op |-> "heal", who |-> "A", actor_health |-> a.health,
                          hit |-> ~miss, amount |-> healing_amount(a, v),
                          gap |-> since.a_heal]
              /\ since' = [since EXCEPT !.a_heal = 0]
              /\ Drawn(Draws(miss, v))
       ELSE /\ UNCHANGED a
            /\ last' = NoAction
            /\ UNCHANGED <<since, rng>>
    /\ pc' = "b_attack"
    /\ UNCHANGED <<char_a_params, char_b_params, num_matches, track_health,
                   main, plot, ticks_run,
                   trial, b, tick_count, wins_a, wins_b, ties, health_history_a,
                   health_history_b, win_rate_a>>

\* B attacks only if it is still alive.
BAttack_alive_only ==
    /\ pc = "b_attack"
    /\ IF b.time_until_attack <= 0 /\ b.health > 0
       THEN \E miss \in BOOLEAN, g \in NoiseHalves :
              LET damage == attack(b, miss, g) IN
              /\ a' = [a EXCEPT !.health = @ - damage]
              /\ b' = [b EXCEPT !.time_until_attack = FloatTicks(b.attack_cooldown)]
              /\ last' = [op |-> "attack", who |-> "B", actor_health |-> b.health,
                          hit |-> ~miss, amount |-> damage,
                          gap |-> since.b_attack]
              /\ since' = [since EXCEPT !.b_attack = 0]
              /\ Drawn(Draws(miss, g))
       ELSE /\ UNCHANGED <<a, b>>
            /\ last' = NoAction
            /\ UNCHANGED <<since, rng>>
    /\ pc' = "b_heal"
    /\ UNCHANGED <<char_a_params, char_b_params, num_matches, track_health,
                   main, plot, ticks_run,
                   trial, tick_count, wins_a, wins_b, ties, health_history_a,
                   health_history_b, win_rate_a>>

\* if b.time_until_attack <= 0: damage = b.attack(); a.health -= damage
BAttack ==
    /\ pc = "b_attack"
    /\ IF b.time_until_attack <= 0
       THEN \E miss \in BOOLEAN, g \in NoiseHalves :
              LET damage == attack(b, miss, g) IN
              /\ a' = [a EXCEPT !.health = @ - damage]
              /\ b' = [b EXCEPT !.time_until_attack = FloatTicks(b.attack_cooldown)]
              /\ last' = [op |-> "attack", who |-> "B", actor_health |-> b.health,
                          hit |-> ~miss, amount |-> damage,
                          gap |-> since.b_attack]
              /\ since' = [since EXCEPT !.b_attack = 0]
              /\ Drawn(Draws(miss, g))
       ELSE /\ UNCHANGED <<a, b>>
            /\ last' = NoAction
            /\ UNCHANGED <<since, rng>>
    /\ pc' = "b_heal"
    /\ UNCHANGED <<char_a_params, char_b_params, num_matches, track_health,
                   main, plot, ticks_run,
                   trial, tick_count, wins_a, wins_b, ties, health_history_a,
                   health_history_b, win_rate_a>>

\* if b.time_until_heal <= 0 and b.healing > 0: b.heal()
BHeal ==
    /\ pc = "b_heal"
    /\ IF b.time_until_heal <= 0 /\ b.healing > 0
       THEN \E miss \in BOOLEAN, v \in VarianceHalves :
              LET healed == heal(b, miss, v) IN
              /\ b' = [healed EXCEPT !.time_until_heal = FloatTicks(b.healing_cooldown)]
              /\ last' = [op |-> "heal", who |-> "B", actor_health |-> b.health,
                          hit |-> ~miss, amount |-> healing_amount(b, v),
                          gap |-> since.b_heal]
              /\ since' = [since EXCEPT !.b_heal = 0]
              /\ Drawn(Draws(miss, v))
       ELSE /\ UNCHANGED b
            /\ last' = NoAction
            /\ UNCHANGED <<since, rng>>
    /\ pc' = "advance"
    /\ UNCHANGED <<char_a_params, char_b_params, num_matches, track_health,
                   main, plot, ticks_run,
                   trial, a, tick_count, wins_a, wins_b, ties, health_history_a,
                   health_history_b, win_rate_a>>

\* Advance time by one tick: tick_count += 1, the four timers -= TICK_LENGTH.
\* With tracking off tick_count is never read; it is held at MaxTicks.
Advance ==
    /\ pc = "advance"
    /\ tick_count' = IF tick_count < MaxTicks THEN tick_count + 1 ELSE tick_count
    /\ a' = [a EXCEPT !.time_until_attack = Dec(@), !.time_until_heal = Dec(@)]
    /\ b' = [b EXCEPT !.time_until_attack = Dec(@), !.time_until_heal = Dec(@)]
    /\ last' = NoAction
    /\ since' = Tick(since)
    /\ pc' = "while"
    /\ UNCHANGED <<char_a_params, char_b_params, num_matches, track_health,
                   main, plot, rng, ticks_run,
                   trial, wins_a, wins_b, ties, health_history_a,
                   health_history_b, win_rate_a>>

\* Award without the "and health > 0" tests.
Award_no_positive ==
    /\ pc = "award"
    /\ IF a.health > b.health
       THEN /\ wins_a' = wins_a + 1
            /\ UNCHANGED <<wins_b, ties>>
       ELSE IF b.health > a.health
       THEN /\ wins_b' = wins_b + 1
            /\ UNCHANGED <<wins_a, ties>>
       ELSE /\ ties' = ties + 1
            /\ UNCHANGED <<wins_a, wins_b>>
    /\ pc' = "for"
    /\ UNCHANGED <<char_a_params, char_b_params, num_matches, track_health,
                   main, plot, rng, since, ticks_run,
                   trial, a, b, tick_count, health_history_a, health_history_b,
                   win_rate_a, last>>

\* Award with two independent non-strict tests: equal healths award both.
Award_both ==
    /\ pc = "award"
    /\ wins_a' = IF a.health >= b.health THEN wins_a + 1 ELSE wins_a
    /\ wins_b' = IF b.health >= a.health THEN wins_b + 1 ELSE wins_b
    /\ UNCHANGED ties
    /\ pc' = "for"
    /\ UNCHANGED <<char_a_params, char_b_params, num_matches, track_health,
                   main, plot, rng, since, ticks_run,
                   trial, a, b, tick_count, health_history_a, health_history_b,
                   win_rate_a, last>>

\* Award wins only if the character has positive health.
Award ==
    /\ pc = "award"
    /\ IF a.health > b.health /\ a.health > 0
       THEN /\ wins_a' = wins_a + 1
            /\ UNCHANGED <<wins_b, ties>>
       ELSE IF b.health > a.health /\ b.health > 0
       THEN /\ wins_b' = wins_b + 1
            /\ UNCHANGED <<wins_a, ties>>
       ELSE /\ ties' = ties + 1
            /\ UNCHANGED <<wins_a, wins_b>>
    /\ pc' = "for"
    /\ UNCHANGED <<char_a_params, char_b_params, num_matches, track_health,
                   main, plot, rng, since, ticks_run,
                   trial, a, b, tick_count, health_history_a, health_history_b,
                   win_rate_a, last>>

\* Compute the win rate and return.
Rate ==
    /\ pc = "rate"
    /\ win_rate_a' = WinRate(wins_a, wins_b)
    /\ pc' = "done"
    /\ UNCHANGED <<char_a_params, char_b_params, num_matches, track_health,
                   main, plot, rng, since, ticks_run,
                   trial, a, b, tick_count, wins_a, wins_b, ties,
                   health_history_a, health_history_b, last>>

Next ==
    \/ ForNext
    \/ ForDone
    \/ WhileEnter
    \/ WhileExit
    \/ AAttack
    \/ AHeal
    \/ BAttack
    \/ BHeal
    \/ Advance
    \/ Award
    \/ Rate

Spec == Init /\ [][Next]_vars

\* The caller seeds the random module, runs run_simulation with tracking,
\* seeds the module with the same value and makes the same call again.  The
\* stream of draws is part of the state, so the calls are for one fight.
InitSeeded ==
    /\ pc = "for"
    /\ char_a_params \in {DuellistParams, HealerParams}
    /\ char_b_params \in {DuellistParams, HealerParams}
    /\ num_matches \in 0 .. 1
    /\ track_health = TRUE
    /\ trial = 0
    /\ a = NoCharacter
    /\ b = NoCharacter
    /\ tick_count = 0
    /\ wins_a = 0
    /\ wins_b = 0
    /\ ties = 0
    /\ health_history_a = <<>>
    /\ health_history_b = <<>>
    /\ win_rate_a = NoRate
    /\ last = NoAction
    /\ ticks_run = <<>>
    /\ since = NoneSince
    /\ rng = SeededRng
    /\ plot = NoPlot
    /\ main = NoMain

\* The first call has returned: keep what it returned (and its counters),
\* seed again and enter run_simulation with the same parameters and number
\* of fights and with track_health = track (lines 42-48 run again).
Restart(track) ==
    /\ pc = "done"
    /\ rng.mode = "record"
    /\ rng' = [rng EXCEPT !.mode = "replay", !.pos = 1,
                           !.first = [win_rate_a |-> win_rate_a,
                                      health_history_a |-> health_history_a,
                                      health_history_b |-> health_history_b,
                                      wins_a |-> wins_a, wins_b |-> wins_b,
                                      health_a |-> a.health,
                                      health_b |-> b.health]]
    /\ pc' = "for"
    /\ trial' = 0
    /\ a' = NoCharacter
    /\ b' = NoCharacter
    /\ tick_count' = 0
    /\ wins_a' = 0
    /\ wins_b' = 0
    /\ ties' = 0
    /\ health_history_a' = <<>>
    /\ health_history_b' = <<>>
    /\ win_rate_a' = NoRate
    /\ last' = NoAction
    /\ ticks_run' = <<>>
    /\ since' = NoneSince
    /\ track_health' = track
    /\ UNCHANGED <<char_a_params, char_b_params, num_matches, main, plot>>

\* The same call again.
Rerun == Restart(track_health)

NextSeeded == Next \/ Rerun

SeededSpec == InitSeeded /\ [][NextSeeded]_vars

\* A seeded call of one or no fight between two of the duellist, the
\* attacker and the healer.
InitSides ==
    /\ pc = "for"
    /\ char_a_params \in {DuellistParams, AttackerParams, HealerParams}
    /\ char_b_params \in {DuellistParams, AttackerParams, HealerParams}
    /\ num_matches \in 0 .. 1
    /\ track_health = TRUE
    /\ trial = 0
    /\ a = NoCharacter
    /\ b = NoCharacter
    /\ tick_count = 0
    /\ wins_a = 0
    /\ wins_b = 0
    /\ ties = 0
    /\ health_history_a = <<>>
    /\ health_history_b = <<>>
    /\ win_rate_a = NoRate
    /\ last = NoAction
    /\ ticks_run = <<>>
    /\ since = NoneSince
    /\ rng = SidesRng
    /\ plot = NoPlot
    /\ main = NoMain

\* The first call has returned: keep what it returned, and call
\* run_simulation again with the two parameter sets exchanged and with each
\* side's draws going to the other side.
RerunSwapped ==
    /\ pc = "done"
    /\ rng.mode = "record_sides"
    /\ rng' = [rng EXCEPT !.mode = "swap", !.pos = NoDraws,
                           !.first = [win_rate_a |-> win_rate_a,
                                      health_history_a |-> health_history_a,
                                      health_history_b |-> health_history_b,
                                      wins_a |-> wins_a, wins_b |-> wins_b,
                                      health_a |-> a.health,
                                      health_b |-> b.health]]
    /\ char_a_params' = char_b_params
    /\ char_b_params' = char_a_params
    /\ pc' = "for"
    /\ trial' = 0
    /\ a' = NoCharacter
    /\ b' = NoCharacter
    /\ tick_count' = 0
    /\ wins_a' = 0
    /\ wins_b' = 0
    /\ ties' = 0
    /\ health_history_a' = <<>>
    /\ health_history_b' = <<>>
    /\ win_rate_a' = NoRate
    /\ last' = NoAction
    /\ ticks_run' = <<>>
    /\ since' = NoneSince
    /\ UNCHANGED <<num_matches, track_health, main, plot>>

NextSides == Next \/ RerunSwapped

SidesSpec == InitSides /\ [][NextSides]_vars

\* The same call again, but without tracking.
RerunUntracked == Restart(FALSE)

NextTracking == Next \/ RerunUntracked

TrackingSpec == InitSeeded /\ [][NextTracking]_vars

\* Calls with tracking (as plot_average_health makes them) of several fights
\* between two duellists.
InitTracked ==
    /\ pc = "for"
    /\ char_a_params \in {DuellistParams}
    /\ char_b_params \in {DuellistParams}
    /\ num_matches \in 0 .. MaxTrials
    /\ track_health = TRUE
    /\ trial = 0
    /\ a = NoCharacter
    /\ b = NoCharacter
    /\ tick_count = 0
    /\ wins_a = 0
    /\ wins_b = 0
    /\ ties = 0
    /\ health_history_a = <<>>
    /\ health_history_b = <<>>
    /\ win_rate_a = NoRate
    /\ last = NoAction
    /\ ticks_run = <<>>
    /\ since = NoneSince
    /\ rng = FreeRng
    /\ plot = NoPlot
    /\ main = NoMain

TrackedSpec == InitTracked /\ [][Next]_vars

\* plot_average_health after its call of run_simulation has returned: the
\* ticks in ascending order and the average health of each side per tick.
\* health_history_b is a defaultdict: a tick it lacks reads as [].
PlotAverage ==
    /\ pc = "done"
    /\ track_health
    /\ LET ticks == sorted(DOMAIN health_history_a) IN
       plot' = [ticks |-> ticks,
                avg_health_a |-> [i \in DOMAIN ticks |->
                                    Average(health_history_a[ticks[i]])],
                avg_health_b |-> [i \in DOMAIN ticks |->
                                    Average(Get(health_history_b, ticks[i]))]]
    /\ pc' = "plotted"
    /\ UNCHANGED <<char_a_params, char_b_params, num_matches, track_health,
                   trial, a, b, tick_count, wins_a, wins_b, ties,
                   health_history_a, health_history_b, win_rate_a, last,
                   ticks_run, since, rng, main>>

NextPlot == Next \/ PlotAverage

PlotSpec == InitTracked /\ [][NextPlot]_vars

\* Calls with the cooldowns of run.py's archetypes: the attacker (0.8 s and
\* 1.0 s) against the healer (1.2 s and 0.5 s), without tracking.
InitCooldown ==
    /\ pc = "for"
    /\ char_a_params = Params(MaxAttack, MaxHealth, 0, 8, 10)
    /\ char_b_params = Params(1, MaxHealth - 1, MaxHealing, 12, 5)
    /\ num_matches \in 1 .. MaxTrials
    /\ track_health = FALSE
    /\ trial = 0
    /\ a = NoCharacter
    /\ b = NoCharacter
    /\ tick_count = 0
    /\ wins_a = 0
    /\ wins_b = 0
    /\ ties = 0
    /\ health_history_a = <<>>
    /\ health_history_b = <<>>
    /\ win_rate_a = NoRate
    /\ last = NoAction
    /\ ticks_run = <<>>
    /\ since = NoneSince
    /\ rng = FreeRng
    /\ plot = NoPlot
    /\ main = NoMain

CooldownSpec == InitCooldown /\ [][Next]_vars

\* Calls without tracking: a fight is followed for as long as it lasts.
InitUntracked == Init /\ track_health = FALSE

\* B's attack is resolved and leaves A at health <= 0.
BLethal == BAttack /\ b.time_until_attack <= 0 /\ a'.health <= 0

\* The interpreter keeps executing the function until it returns, and the
\* random draws are fair: a blow by B that takes all of A's health has a
\* positive probability at each of B's attacks, so it is not avoided for ever.
FairSpec == InitUntracked /\ [][Next]_vars /\ WF_vars(Next) /\ SF_vars(BLethal)

\* ------------------------------------------------------------ balancing
\* run.py at the head of its balancing loop, with the initial parameters of
\* the two archetypes, round 0 and an empty history; the simulator is between
\* two calls, and each of its calls in a round is the draw of a win rate.
InitBalance ==
    /\ pc = "for"
    /\ char_a_params = HealerParams
    /\ char_b_params = AttackerParams
    /\ num_matches = MaxTrials
    /\ track_health = FALSE
    /\ trial = 0
    /\ a = NoCharacter
    /\ b = NoCharacter
    /\ tick_count = 0
    /\ wins_a = 0
    /\ wins_b = 0
    /\ ties = 0
    /\ health_history_a = <<>>
    /\ health_history_b = <<>>
    /\ win_rate_a = NoRate
    /\ last = NoAction
    /\ ticks_run = <<>>
    /\ since = NoneSince
    /\ rng = FreeRng
    /\ plot = NoPlot
    /\ main = [NoMain EXCEPT !.pc = "while",
                             !.current_healer_params = HealerParams,
                             !.current_attacker_params = AttackerParams]

SimulatorIdle ==
    UNCHANGED <<pc, char_a_params, char_b_params, num_matches, track_health,
                trial, a, b, tick_count, wins_a, wins_b, ties,
                health_history_a, health_history_b, win_rate_a, last,
                ticks_run, since, rng, plot>>

\* while round_number < max_rounds: the round simulates the current matchup.
RoundStart ==
    /\ main.pc = "while"
    /\ main.round_number < max_rounds
    /\ \E w \in WinRates :
           main' = [main EXCEPT !.win_rate = w, !.pc = "balanced"]
    /\ SimulatorIdle

\* The loop test fails.
RoundsExhausted ==
    /\ main.pc = "while"
    /\ ~(main.round_number < max_rounds)
    /\ main' = [main EXCEPT !.pc = "final"]
    /\ SimulatorIdle

\* balanced = 40 <= win_rate <= 60
balanced(win_rate) == 40 <= win_rate /\ win_rate <= 60

\* if balanced: break
Balanced ==
    /\ main.pc = "balanced"
    /\ balanced(main.win_rate)
    /\ main' = [main EXCEPT !.pc = "final"]
    /\ SimulatorIdle

\* result = run_optimization_agent(...): the two requests to the service and
\* what the agent makes of the answers; an exception leaves the loop and
\* the program.
CallAgent ==
    /\ main.pc = "balanced"
    /\ ~balanced(main.win_rate)
    /\ \E r1 \in DecideResponses :
         LET decision == decide_parameter_change(r1) IN
         \E r2 \in ApplyResponses(decision, main.current_healer_params,
                                  main.current_attacker_params) :
           LET proposed_fix ==
                   IF decision.kind = "None" THEN NoFix("None")
                   ELSE apply_parameter_change(decision, r2,
                                               main.current_healer_params,
                                               main.current_attacker_params)
               result == run_optimization_agent(decision, proposed_fix)
           IN  main' = [main EXCEPT
                           !.result = result,
                           !.pc = IF result.kind = "KeyError"
                                  THEN "raised" ELSE "result"]
    /\ SimulatorIdle

\* The history entry of a round numbered from the round counter itself.
history_entry_zero_based(round_number, win_rate_before, win_rate_after, decision, fixes) ==
    [iteration |-> round_number,
     win_rate_before |-> win_rate_before,
     win_rate_after |-> win_rate_after,
     changes |-> [character |-> decision.character,
                  parameter |-> decision.parameter,
                  direction |-> decision.direction,
                  amount |-> fixes.amount]]

\* history_entry = {"iteration": round_number + 1, ...}
history_entry(round_number, win_rate_before, win_rate_after, decision, fixes) ==
    [iteration |-> round_number + 1,
     win_rate_before |-> win_rate_before,
     win_rate_after |-> win_rate_after,
     changes |-> [character |-> decision.character,
                  parameter |-> decision.parameter,
                  direction |-> decision.direction,
                  amount |-> fixes.amount]]

\* if result: take the parameters of the fix, simulate again, append the
\* history entry; round_number += 1.
ApplyFixes ==
    /\ main.pc = "result"
    /\ main.result.kind = "tuple"
    /\ \E win_rate_after \in WinRates :
           main' = [main EXCEPT
                       !.current_healer_params = main.result.fixes.healer,
                       !.current_attacker_params = main.result.fixes.attacker,
                       !.history_buffer =
                           Append(@, history_entry(main.round_number,
                                                   main.win_rate,
                                                   win_rate_after,
                                                   main.result.decision,
                                                   main.result.fixes)),
                       !.round_number = @ + 1,
                       !.pc = "while"]
    /\ SimulatorIdle

\* else: print("Failed to get fixes from optimization agent."); break
NoFixes ==
    /\ main.pc = "result"
    /\ main.result.kind = "None"
    /\ main' = [main EXCEPT !.pc = "final"]
    /\ SimulatorIdle

NextBalance ==
    \/ RoundStart
    \/ RoundsExhausted
    \/ Balanced
    \/ CallAgent
    \/ ApplyFixes
    \/ NoFixes

BalanceSpec == InitBalance /\ [][NextBalance]_vars

\* ------------------------------------------------------------ properties

\* Fights whose award has been made.
Completed ==
    IF pc \in {"for", "rate", "done", "plotted"} THEN trial ELSE trial - 1

InFight == pc \in {"while", "a_attack", "a_heal", "b_attack", "b_heal", "advance"}

\* C1: the returned win_rate_a is 100 * wins_a / (wins_a + wins_b) when a
\* decisive fight exists and exactly 50 otherwise, and lies in [0, 100].
C1_WinRate ==
    pc = "done" =>
        /\ wins_a + wins_b > 0 =>
               win_rate_a.num * (wins_a + wins_b) = 100 * wins_a * win_rate_a.den
        /\ wins_a + wins_b = 0 => win_rate_a = [num |-> 50, den |-> 1]
        /\ win_rate_a.den > 0
        /\ 0 <= win_rate_a.num
        /\ win_rate_a.num <= 100 * win_rate_a.den

C1_Witness == pc = "done" /\ wins_a = 1 /\ wins_b = 0 /\ ties = 1

\* C2: the award of a fight increments wins_a iff health_a > health_b and
\* health_a > 0, wins_b iff health_b > health_a and health_b > 0, and
\* otherwise changes neither counter; no other step changes a counter.
C2_Award ==
    [][ /\ pc = "award" =>
            /\ (wins_a' = wins_a + 1) <=> (a.health > b.health /\ a.health > 0)
            /\ (wins_b' = wins_b + 1) <=> (b.health > a.health /\ b.health > 0)
            /\ wins_a' \in {wins_a, wins_a + 1}
            /\ wins_b' \in {wins_b, wins_b + 1}
        /\ pc # "award" => wins_a' = wins_a /\ wins_b' = wins_b ]_vars

\* A fight in which both died and A's health is the larger was a tie.
C2_Witness ==
    /\ pc = "for" /\ trial = 1
    /\ b.health < a.health /\ a.health <= 0
    /\ wins_a = 0 /\ wins_b = 0

\* C3: wins_a + wins_b + ties is the number of fights completed (num_matches
\* at the end); a step increments at most one of wins_a and wins_b, by
\* one, and never decrements a counter.
C3_Counts ==
    /\ [](wins_a + wins_b + ties = Completed)
    /\ []((pc = "done" /\ num_matches >= 0) => wins_a + wins_b + ties = num_matches)
    /\ [][ /\ wins_a' \in {wins_a, wins_a + 1}
           /\ wins_b' \in {wins_b, wins_b + 1}
           /\ ties' \in {ties, ties + 1}
           /\ (wins_a' - wins_a) + (wins_b' - wins_b) <= 1
           /\ (ties' = ties + 1) <=>
                  (pc = "award" /\ wins_a' = wins_a /\ wins_b' = wins_b) ]_vars

C3_Witness ==
    pc = "done" /\ num_matches = MaxTrials /\ wins_a > 0 /\ ties > 0

\* C5 (as claimed): with an invalid input nothing is constructed, no tick
\* runs and no win rate is returned.
InvalidParams(p) ==
    \/ p.attack_cooldown <= 0
    \/ p.healing_cooldown <= 0
    \/ p.attack_power < 0
    \/ p.health < 0
    \/ p.healing < 0

InvalidInput ==
    \/ InvalidParams(char_a_params)
    \/ InvalidParams(char_b_params)
    \/ num_matches <= 0

C5_InvalidRejected ==
    InvalidInput =>
        /\ a = NoCharacter /\ b = NoCharacter
        /\ ~InFight
        /\ pc # "done" /\ win_rate_a = NoRate

ValidInput == ~InvalidInput

\* C4 (as claimed): whoever attacks or heals has health > 0 when it does
\* (stated for valid inputs).
C4_DeadDoNotAct ==
    (ValidInput /\ last.op # "none") => last.actor_health > 0

\* C4 (amended): A never attacks or heals at health <= 0, a tick is entered
\* only with both healths > 0, and once a health is <= 0 at the loop test the
\* fight is over; only B acts at health <= 0, in the rest of the tick in
\* which A's attack took its health.
C4_OnlyBInItsLastTick ==
    /\ []((last.op # "none" /\ last.actor_health <= 0) => last.who = "B")
    /\ [](pc = "a_attack" => (a.health > 0 /\ b.health > 0))
    /\ [](pc = "a_heal" => a.health > 0)
    /\ [][ (pc = "while" /\ (a.health <= 0 \/ b.health <= 0)) => pc' = "award" ]_vars
    /\ [][ (pc \in {"award", "for", "rate", "done"}) => (last' = NoAction) ]_vars

\* B healed at health <= 0 and is alive again.
C4_Witness ==
    /\ ValidInput
    /\ last.op = "heal" /\ last.who = "B" /\ last.actor_health <= 0
    /\ b.health > 0 /\ a.health > 0

C7_HealthAtMostMax ==
    /\ a.health <= a.max_health
    /\ b.health <= b.max_health

\* A heal whose raw amount would have passed max_health.
C7_Witness ==
    /\ last.op = "heal" /\ last.who = "A" /\ last.hit
    /\ last.actor_health + last.amount > a.max_health
    /\ a.health = a.max_health

\* C8 (as claimed): right after a heal the healer's health is in
\* [0, max_health] (stated for valid inputs).
C8_HealInRange ==
    /\ (ValidInput /\ last.op = "heal" /\ last.who = "A") =>
           (0 <= a.health /\ a.health <= a.max_health)
    /\ (ValidInput /\ last.op = "heal" /\ last.who = "B") =>
           (0 <= b.health /\ b.health <= b.max_health)

\* C8 (amended): right after a heal the healer's health is at most
\* max_health; it is also >= 0 if its health before the heal was >= 0 and
\* the heal missed or its amount was >= 0.  Nothing clamps it at 0.
Healer == IF last.who = "A" THEN a ELSE b

C8_HealCapped ==
    last.op = "heal" =>
        /\ Healer.health <= Healer.max_health
        /\ (last.actor_health >= 0 /\ (~last.hit \/ last.amount >= 0)) =>
               Healer.health >= last.actor_health
        /\ ~last.hit => Healer.health = last.actor_health

\* A heal that raised a positive health.
C8_Witness ==
    /\ ValidInput
    /\ last.op = "heal" /\ last.hit /\ last.amount > 0
    /\ last.actor_health > 0
    /\ Healer.health > last.actor_health

\* C9: with healing = 0 on both sides no step of a fight raises a health,
\* and each recorded sample is at most the fight's sample of the tick
\* before.
NoHealing == char_a_params.healing = 0 /\ char_b_params.healing = 0

C9_NonIncreasing ==
    [][ (NoHealing /\ InFight) =>
            /\ a'.health <= a.health
            /\ b'.health <= b.health
            /\ (track_health /\ pc = "while" /\ pc' = "a_attack" /\ tick_count > 0) =>
                   /\ Last(Get(health_history_a', tick_count))
                          <= Last(Get(health_history_a, tick_count - 1))
                   /\ Last(Get(health_history_b', tick_count))
                          <= Last(Get(health_history_b, tick_count - 1)) ]_vars

\* A second sample, lower than the first, after a far negative damage draw.
C9_Witness ==
    /\ NoHealing /\ track_health /\ pc = "a_attack" /\ tick_count = 1
    /\ Last(Get(health_history_a, 1)) < Last(Get(health_history_a, 0))
    /\ Last(Get(health_history_b, 1)) = Last(Get(health_history_b, 0))

\* C10: the sample stored for a tick is the health with which the tick is
\* entered: at tick 0 the initial max_health, later the health left by the
\* actions of the tick before (advancing the time and the loop test change
\* no health); the tick's own actions do not change the stored sample.
C10_SampleOnEntry ==
    /\ []((track_health /\ pc = "a_attack") =>
            /\ Len(Get(health_history_a, tick_count)) > 0
            /\ Len(Get(health_history_b, tick_count)) > 0
            /\ Last(Get(health_history_a, tick_count)) = a.health
            /\ Last(Get(health_history_b, tick_count)) = b.health
            /\ tick_count = 0 => (a.health = char_a_params.health
                                  /\ b.health = char_b_params.health
                                  /\ a.health = a.max_health
                                  /\ b.health = b.max_health))
    /\ [][ /\ pc \in {"advance", "while"} =>
                (a'.health = a.health /\ b'.health = b.health)
           /\ pc \in {"a_attack", "a_heal", "b_attack", "b_heal", "advance"} =>
                (health_history_a' = health_history_a
                 /\ health_history_b' = health_history_b) ]_vars

\* A tick-1 sample that differs from the tick-0 sample on both sides, B's
\* after a heal.
C10_Witness ==
    /\ track_health /\ pc = "a_attack" /\ tick_count = 1
    /\ char_b_params.healing > 0
    /\ Last(Get(health_history_a, 1)) < Last(Get(health_history_a, 0))
    /\ Last(Get(health_history_b, 1)) < Last(Get(health_history_b, 0))
    /\ Last(Get(health_history_b, 1)) = b.health

\* C11: with tracking, the number of samples stored at tick t is the number
\* of fights that entered at least t + 1 ticks, for A and for B; the two
\* histories have the same tick indices, the indices are 0 .. n - 1, every
\* index present holds a sample, and the number of samples does not
\* increase with t and is at most the number of fights.
SamplesAt(h, t) == Len(Get(h, t))

TrialsWithTick(t) ==
    Cardinality({i \in 1 .. Len(ticks_run) : ticks_run[i] >= t + 1})

C11_SampleCounts ==
    track_health =>
        /\ \A t \in 0 .. MaxTicks :
               /\ SamplesAt(health_history_a, t) = TrialsWithTick(t)
               /\ SamplesAt(health_history_b, t) = TrialsWithTick(t)
        /\ DOMAIN health_history_a = DOMAIN health_history_b
        /\ \E n \in 0 .. MaxTicks : DOMAIN health_history_a = 0 .. (n - 1)
        /\ Len(ticks_run) = trial
        /\ \A t \in DOMAIN health_history_a :
               /\ SamplesAt(health_history_a, t) >= 1
               /\ SamplesAt(health_history_a, t) <= trial
               /\ SamplesAt(health_history_a, t + 1) <= SamplesAt(health_history_a, t)

\* Two fights of different lengths: tick 1 holds fewer samples than fights.
C11_Witness ==
    /\ track_health /\ pc = "done" /\ trial = 2
    /\ ticks_run = <<2, 1>>
    /\ SamplesAt(health_history_a, 0) = 2
    /\ SamplesAt(health_history_b, 1) = 1

\* C12 (as claimed): a combatant with a cooldown of k >= 1 ticks does the
\* action for the first time at tick 0 and then exactly every k ticks: when
\* it repeats the action, k ticks have passed since it last did it.
Actor == IF last.who = "A" THEN a ELSE b

CooldownOfLast ==
    IF last.op = "attack" THEN Actor.attack_cooldown ELSE Actor.healing_cooldown

C12_EveryKTicks ==
    (last.op # "none" /\ CooldownOfLast >= 1) =>
        /\ last.gap = -1 => tick_count = 0
        /\ last.gap >= 0 => last.gap = CooldownOfLast

\* C13: two runs with the same parameters, the same number of fights and
\* the same stream of draws return the same win rate and the same health
\* histories; the second run asks for exactly the draws of the first.
DrawDue ==
    \/ pc = "a_attack" /\ a.time_until_attack <= 0
    \/ pc = "a_heal" /\ a.time_until_heal <= 0 /\ a.healing > 0
    \/ pc = "b_attack" /\ b.time_until_attack <= 0
    \/ pc = "b_heal" /\ b.time_until_heal <= 0 /\ b.healing > 0

Fresh(c, p) ==
    /\ c.health = p.health
    /\ c.max_health = p.health
    /\ c.time_until_attack = 0
    /\ c.time_until_heal = 0
    /\ c.attack_power = p.attack_power
    /\ c.healing = p.healing
    /\ c.attack_cooldown = p.attack_cooldown
    /\ c.healing_cooldown = p.healing_cooldown

C14_FreshCombatants ==
    /\ []((pc = "while" /\ tick_count = 0) =>
              (Fresh(a, char_a_params) /\ Fresh(b, char_b_params)))
    /\ [][ /\ char_a_params' = char_a_params
           /\ char_b_params' = char_b_params
           /\ (pc = "for" /\ pc' = "while") =>
                  /\ Fresh(a', char_a_params)
                  /\ Fresh(b', char_b_params)
                  /\ tick_count' = 0 ]_vars

\* The second fight starts after a first one that A lost at a later tick.
C14_Witness ==
    /\ pc = "while" /\ tick_count = 0 /\ trial = 2
    /\ wins_b = 1
    /\ char_a_params.health > 0 /\ char_a_params.healing > 0
    /\ Fresh(a, char_a_params) /\ Fresh(b, char_b_params)

\* C15: without tracking no sample is ever recorded; and a run without
\* tracking, fed the draws of a run with tracking of the same call, asks for
\* exactly those draws, enters every tick with the healths the tracked run
\* recorded for it, and ends with the same counters and the same win rate.
C15_TrackingOnly ==
    /\ ~track_health => (health_history_a = <<>> /\ health_history_b = <<>>)
    /\ (rng.mode = "replay" /\ ~track_health) =>
           /\ rng.pos <= Len(rng.stream) + 1
           /\ DrawDue => rng.pos <= Len(rng.stream)
           /\ pc = "a_attack" =>
                  /\ Get(rng.first.health_history_a, tick_count) = <<a.health>>
                  /\ Get(rng.first.health_history_b, tick_count) = <<b.health>>
           /\ pc = "done" =>
                  /\ wins_a = rng.first.wins_a
                  /\ wins_b = rng.first.wins_b
                  /\ win_rate_a = rng.first.win_rate_a
                  /\ rng.pos = Len(rng.stream) + 1

\* The untracked repetition of a tracked two-tick fight that A won.
C15_Witness ==
    /\ rng.mode = "replay" /\ ~track_health /\ pc = "done"
    /\ DOMAIN rng.first.health_history_a = {0, 1}
    /\ rng.first.health_history_a[1] # rng.first.health_history_a[0]
    /\ wins_a = 1
    /\ health_history_a = <<>>

\* C16 (as claimed): a returned win rate of 50 means that no fight was
\* decisive.
IsFifty(r) == r.num = 50 * r.den

C16_FiftyMeansNoDecisive ==
    (pc = "done" /\ IsFifty(win_rate_a)) => wins_a + wins_b = 0

\* C16 (amended): the returned win rate is 50 exactly when wins_a = wins_b,
\* which covers the run without a decisive fight and also every run in
\* which each side won as many fights as the other.
C16_FiftyIffEqualWins ==
    pc = "done" => (IsFifty(win_rate_a) <=> wins_a = wins_b)

\* One win each: 50 is returned with two decisive fights.
C16_Witness ==
    pc = "done" /\ wins_a = 1 /\ wins_b = 1 /\ IsFifty(win_rate_a)

\* C17: the summary lists the ticks of the history in ascending order and
\* gives for each the sum of its samples divided by the number of samples
\* stored at that tick (the number of fights that entered it), never by 0;
\* every tick listed for A has samples for B.
C17_Summary ==
    pc = "plotted" =>
        /\ Len(plot.ticks) = Cardinality(DOMAIN health_history_a)
        /\ \A i \in DOMAIN plot.ticks :
               LET t == plot.ticks[i] IN
               /\ t \in DOMAIN health_history_a
               /\ t \in DOMAIN health_history_b
               /\ i > 1 => plot.ticks[i - 1] < t
               /\ plot.avg_health_a[i] # ZeroDivisionError
               /\ plot.avg_health_b[i] # ZeroDivisionError
               /\ plot.avg_health_a[i].den = TrialsWithTick(t)
               /\ plot.avg_health_b[i].den = TrialsWithTick(t)
               /\ plot.avg_health_a[i].den >= 1
               /\ plot.avg_health_a[i].num = sum(health_history_a[t])
               /\ plot.avg_health_b[i].num = sum(health_history_b[t])

\* Two fights, only one of which entered tick 1: the average at tick 1 is
\* taken over one sample.
C17_Witness ==
    /\ pc = "plotted" /\ trial = 2
    /\ plot.ticks = <<0, 1>>
    /\ plot.avg_health_a[1].den = 2
    /\ plot.avg_health_a[2] = [num |-> 1, den |-> 1]
    /\ plot.avg_health_b[2] = [num |-> 2, den |-> 1]

\* C18: a tick resolves A's attack, A's heal, B's attack and B's heal in
\* this order, each as soon as its timer has expired and whatever the
\* healths are by then; the loop condition is tested only before the next
\* tick.  A tick can so leave both healths <= 0; the fight is then over and
\* is a tie.
C18_OrderAndTie ==
    /\ [][ /\ pc = "a_attack" => pc' = "a_heal"
           /\ pc = "a_heal" => pc' = "b_attack"
           /\ pc = "b_attack" => pc' = "b_heal"
           /\ pc = "b_heal" => pc' = "advance"
           /\ pc = "advance" => pc' = "while"
           /\ pc = "a_attack" =>
                  ((last'.op = "attack" /\ last'.who = "A") <=> a.time_until_attack <= 0)
           /\ pc = "a_heal" =>
                  ((last'.op = "heal" /\ last'.who = "A")
                       <=> (a.time_until_heal <= 0 /\ a.healing > 0))
           /\ pc = "b_attack" =>
                  ((last'.op = "attack" /\ last'.who = "B") <=> b.time_until_attack <= 0)
           /\ pc = "b_heal" =>
                  ((last'.op = "heal" /\ last'.who = "B")
                       <=> (b.time_until_heal <= 0 /\ b.healing > 0))
           /\ (pc = "while" /\ a.health <= 0 /\ b.health <= 0) => pc' = "award"
           /\ (pc = "award" /\ a.health <= 0 /\ b.health <= 0) =>
                  (ties' = ties + 1 /\ wins_a' = wins_a /\ wins_b' = wins_b) ]_vars
    /\ [](pc = "a_attack" /\ tick_count = 0 =>
              (a.time_until_attack <= 0 /\ b.time_until_attack <= 0))

\* A fight of one tick in which each side killed the other was a tie.
C18_Witness ==
    /\ ValidInput
    /\ pc = "for" /\ trial = 1 /\ tick_count = 1
    /\ a.health <= 0 /\ b.health <= 0
    /\ ties = 1 /\ wins_a = 0 /\ wins_b = 0

\* C19: a missed attack leaves the opponent as it was and a missed heal
\* leaves the healer's health as it was, and both still reset their timer
\* to the cooldown; an attack, hit or missed, leaves the attacker's health
\* as it was and does not raise the opponent's; the action changes nothing
\* but the opponent's health (attack), the actor's health (heal) and the
\* actor's timer.
C19_MissConsumesCooldown ==
    [][ /\ (pc = "a_attack" /\ last'.op = "attack") =>
               /\ a' = [a EXCEPT !.time_until_attack = FloatTicks(a.attack_cooldown)]
               /\ b'.health <= b.health
               /\ b' = [b EXCEPT !.health = b'.health]
               /\ ~last'.hit => b' = b
        /\ (pc = "b_attack" /\ last'.op = "attack") =>
               /\ b' = [b EXCEPT !.time_until_attack = FloatTicks(b.attack_cooldown)]
               /\ a'.health <= a.health
               /\ a' = [a EXCEPT !.health = a'.health]
               /\ ~last'.hit => a' = a
        /\ (pc = "a_heal" /\ last'.op = "heal") =>
               /\ a' = [a EXCEPT !.time_until_heal = FloatTicks(a.healing_cooldown),
                                  !.health = a'.health]
               /\ b' = b
               /\ ~last'.hit => a'.health = a.health
        /\ (pc = "b_heal" /\ last'.op = "heal") =>
               /\ b' = [b EXCEPT !.time_until_heal = FloatTicks(b.healing_cooldown),
                                  !.health = b'.health]
               /\ a' = a
               /\ ~last'.hit => b'.health = b.health
        /\ InFight /\ pc # "while" =>
               /\ wins_a' = wins_a /\ wins_b' = wins_b /\ ties' = ties
               /\ health_history_a' = health_history_a
               /\ health_history_b' = health_history_b ]_vars

\* A missed heal that would have raised B's health: the health is as it
\* was and the timer runs again.
C19_Witness ==
    /\ last.op = "heal" /\ last.who = "B" /\ ~last.hit
    /\ last.amount > 0 /\ last.actor_health < b.max_health
    /\ b.health = last.actor_health
    /\ b.time_until_heal = FloatTicks(b.healing_cooldown)
    /\ b.time_until_heal > 0

\* C20: when the tick loop of a fight has ended a health is <= 0; the award
\* gives A the win iff health_a > 0, B the win iff health_b > 0 and is a tie
\* iff both healths are <= 0; no fight ends with both healths positive, equal
\* or not.
C20_LoopEnd ==
    /\ [](pc = "award" => (a.health <= 0 \/ b.health <= 0))
    /\ [][ pc = "award" =>
               /\ (wins_a' = wins_a + 1) <=> a.health > 0
               /\ (wins_b' = wins_b + 1) <=> b.health > 0
               /\ (ties' = ties + 1) <=> (a.health <= 0 /\ b.health <= 0) ]_vars

\* A won a fight in which it was hurt and B had been healed.
C20_Witness ==
    /\ pc = "for" /\ trial = 1 /\ wins_a = 1
    /\ a.health > 0 /\ a.health < a.max_health
    /\ b.health <= 0 /\ b.healing > 0
    /\ ValidInput

\* C21 (as claimed): if the parameter sets change places and each side's
\* draws go with them, the fight ends with the two final healths exchanged,
\* A's win becomes B's and a tie stays a tie.
SwappedDone == rng.mode = "swap" /\ pc = "done" /\ num_matches = 1

Mirrored ==
    /\ a.health = rng.first.health_b
    /\ b.health = rng.first.health_a
    /\ wins_a = rng.first.wins_b
    /\ wins_b = rng.first.wins_a
    /\ (wins_a + wins_b > 0) =>
           win_rate_a.num * rng.first.win_rate_a.den =
               (100 * rng.first.win_rate_a.den - rng.first.win_rate_a.num)
                   * win_rate_a.den

C21_Symmetric == SwappedDone => Mirrored

\* C21 (amended): the same, for two sides neither of which heals
\* (healing = 0); the second run also finds a draw for every action it
\* resolves.
SwapDrawDue ==
    /\ DrawDue
    /\ rng.pos[pc] >= Len(DrawsOf(Mirror(pc)))

C21_SymmetricWithoutHealing ==
    (rng.mode = "swap" /\ NoHealing) =>
        /\ ~SwapDrawDue
        /\ SwappedDone => Mirrored

\* The second run has ended a two-tick fight between the duellist and the
\* attacker that one side won in the first run.
C21_Witness ==
    /\ SwappedDone /\ NoHealing /\ Mirrored
    /\ char_a_params # char_b_params
    /\ tick_count = 2
    /\ wins_a = 1
    /\ a.health < a.max_health

\* The state of the balancing loop that outlives a round.
LoopKept ==
    /\ main'.round_number = main.round_number
    /\ main'.history_buffer = main.history_buffer
    /\ main'.current_healer_params = main.current_healer_params
    /\ main'.current_attacker_params = main.current_attacker_params

C23_NeverRaises ==
    /\ main.pc # "raised"
    /\ main.result.kind \in {"None", "tuple"}

TypeOK ==
    /\ pc \in {"for", "while", "a_attack", "a_heal", "b_attack", "b_heal",
               "advance", "award", "rate", "done", "plotted"}
    /\ trial \in 0 .. MaxTrials
    /\ tick_count \in 0 .. MaxTicks
    /\ wins_a \in 0 .. MaxTrials
    /\ wins_b \in 0 .. MaxTrials
    /\ main.pc \in {"idle", "while", "balanced", "result", "final", "raised"}
    /\ main.round_number \in 0 .. max_rounds
====
